---------------------------- MODULE Spec2Model ----------------------------
(***************************************************************************)
(* Model of obs_file: ProcessFileTask (processFile.py) and                 *)
(* FileArgumentParser (argumentParser.py).                                 *)
(*                                                                         *)
(* Two state machines share the module.  The "run" machine follows one     *)
(* call of ProcessFileTask.run statement by statement; the "parse" machine *)
(* follows one call of FileArgumentParser.parse_args.  Each specification  *)
(* below starts one of the machines and keeps the other one idle.          *)
(***************************************************************************)
EXTENDS Integers, Sequences, FiniteSets, TLC

(***************************************************************************)
(* Bounds of the model.                                                    *)
(***************************************************************************)
NPix == 2            \* pixels per plane
MaxIntensity == 2    \* intensities range over -1 .. MaxIntensity
MaxGain == 2         \* config.gain ranges over -1 .. MaxGain
MaxNoise == 1        \* config.noise ranges over 0 .. MaxNoise

Pixels == 1..NPix
Intensities == (-1)..MaxIntensity
Gains == (-1)..MaxGain
Noises == 0..MaxNoise
Lows == {0, 2}            \* config.low (default 0.0)
Saturations == {0, 1}     \* config.saturation
ClipStats == {0, 3}       \* values the VARIANCECLIP statistic may return
PriorVariances == {0, 5}  \* variance values stored in the input file
ProcResults == {"structA", "structB"}   \* what ProcessImageTask.process returns

(***************************************************************************)
(* Mask planes of afwImage.MaskU (unsigned 16 bit) and bit arithmetic.     *)
(***************************************************************************)
BAD == 1
SAT == 2
INTRP == 4
CR == 8
EDGE == 16
MaskWidth == 16
MaskModulus == 2 ^ MaskWidth

RECURSIVE BitAnd(_, _)
BitAnd(a, b) ==
    IF a = 0 \/ b = 0 THEN 0
    ELSE (IF a % 2 = 1 /\ b % 2 = 1 THEN 1 ELSE 0) + 2 * BitAnd(a \div 2, b \div 2)

RECURSIVE BitOr(_, _)
BitOr(a, b) ==
    IF a = 0 THEN b
    ELSE IF b = 0 THEN a
    ELSE (IF a % 2 = 1 \/ b % 2 = 1 THEN 1 ELSE 0) + 2 * BitOr(a \div 2, b \div 2)

\* whether the plane whose bit value is b is set in m
HasBit(m, b) == (m \div b) % 2 = 1

\* afwImage.MaskU.getPlaneBitMask(["SAT", "INTRP", "BAD", "EDGE"])
RetainedBits == BitOr(BitOr(SAT, INTRP), BitOr(BAD, EDGE))

\* mask values a file can carry in one pixel: every combination of five planes
RawMaskValues == 0..(2 * EDGE - 1)

(***************************************************************************)
(* Pixel values of the variance plane: exact fractions n/d with d > 0, and *)
(* d = 0 for the non-finite results of a division by zero (n = 1: inf,     *)
(* n = -1: -inf, n = 0: nan), which numpy produces without raising.        *)
(***************************************************************************)
Abs(x) == IF x < 0 THEN -x ELSE x
Sign(x) == IF x < 0 THEN -1 ELSE IF x > 0 THEN 1 ELSE 0

RECURSIVE GCD(_, _)
GCD(a, b) == IF b = 0 THEN a ELSE GCD(b, a % b)

Frac(n, d) ==
    IF d = 0 THEN [n |-> Sign(n), d |-> 0]
    ELSE LET g == GCD(Abs(n), Abs(d))
         IN  [n |-> (Sign(d) * n) \div g, d |-> Abs(d) \div g]

FromInt(i) == [n |-> i, d |-> 1]

FracAdd(x, y) ==
    IF x.d = 0 /\ y.d = 0 THEN (IF x.n = y.n THEN x ELSE [n |-> 0, d |-> 0])
    ELSE IF x.d = 0 THEN x
    ELSE IF y.d = 0 THEN y
    ELSE Frac(x.n * y.d + y.n * x.d, x.d * y.d)

(***************************************************************************)
(* State.                                                                  *)
(*   run machine (ProcessFileTask.run):                                    *)
(*     pc               position in run                                    *)
(*     config           self.config                                        *)
(*     file             the planes stored in the input file, and whether a *)
(*                      copy of it exists under _parent                    *)
(*     inputFile        which path run reads: "input" or "_parent"         *)
(*     exc              the exception the primary loader raised            *)
(*     propagated       the exception that left run                        *)
(*     postIsrExposure  the exposure being prepared                        *)
(*     calls            the calls run has made, in order                   *)
(*     log              what run has logged                                *)
(*     divisors         the values run has divided the image by            *)
(*     handed           the exposure as it was when given to process       *)
(*     result           what process returned                              *)
(*     returned         what run returned                                  *)
(***************************************************************************)
VARIABLES pc, config, file, inputFile, exc, propagated, postIsrExposure, calls,
          log, divisors, handed, result, returned

runVars == <<pc, config, file, inputFile, exc, propagated, postIsrExposure, calls,
               log, divisors, handed, result, returned>>

(***************************************************************************)
(*   parse machine (FileArgumentParser.parse_args):                        *)
(*     ppc         position in parse_args                                  *)
(*     argv        the command line as given                               *)
(*     args        the argument list parse_args works on (it rewrites it)  *)
(*     env         the default roots taken from the environment            *)
(*     fs          the filesystem: its directories and its regular files   *)
(*     fs0         the filesystem as parse_args found it                   *)
(*     inputRoot   the local variable of that name                         *)
(*     namespace   the namespace being filled                              *)
(*     events      the calls with an outside effect, in order              *)
(*     exitStatus  the status the process exited with, if it did           *)
(*     idHistory   namespace.id.idList as it was given, then as each call  *)
(*                 of _processDataIds left it                              *)
(***************************************************************************)
VARIABLES ppc, argv, args, env, fs, fs0, inputRoot, namespace, events,
          exitStatus, idHistory

parseVars == <<ppc, argv, args, env, fs, fs0, inputRoot, namespace, events,
               exitStatus, idHistory>>

vars == <<runVars, parseVars>>

NoException == [class |-> "none", type |-> "none"]
FitsErrorType == "lsst::afw::fits::FitsError *"
\* what afwImage.ExposureF(inputFile) and MaskedImageF(inputFile, md) can raise
LoadExceptions ==
    { [class |-> "LsstCppException", type |-> FitsErrorType],
      [class |-> "LsstCppException", type |-> "lsst::pex::exceptions::NotFoundError *"],
      [class |-> "MemoryError", type |-> "none"] }

EmptyExposure == [image |-> << >>, mask |-> << >>, variance |-> << >>, wcs |-> "none"]

LogEntry(level, what, a, b) == [level |-> level, what |-> what, a |-> a, b |-> b]

Configs(dv, dm, bs, gs, ns, ss, ls) ==
    [doVariance : dv, doMask : dm, isBackgroundSubtracted : bs,
     gain : gs, noise : ns, saturation : ss, low : ls]

Files(is, ms, vs) ==
    [image : [Pixels -> is], mask : [Pixels -> ms],
     variance : [Pixels -> {FromInt(v) : v \in vs}], parent : BOOLEAN]

RunAt(start, cfgs, files) ==
    /\ pc = start
    /\ config \in cfgs
    /\ file \in files
    /\ inputFile = "input"
    /\ exc = NoException
    /\ propagated = NoException
    /\ postIsrExposure =
          IF start \in {"start", "idle"} THEN EmptyExposure
          ELSE [image |-> file.image, mask |-> file.mask,
                variance |-> file.variance, wcs |-> "file"]
    /\ calls = IF start \in {"start", "idle"} THEN << >> ELSE <<"ExposureF">>
    /\ log = IF start \in {"start", "idle"} THEN << >>
             ELSE <<LogEntry("info", "Processing", 0, 0)>>
    /\ divisors = << >>
    /\ handed = EmptyExposure
    /\ result = "none"
    /\ returned = "none"

(***************************************************************************)
(* ProcessFileTask.run, lines 86-99: choose the file to read.              *)
(***************************************************************************)
Begin ==
    /\ pc = "start"
    /\ log' = Append(log, LogEntry("info", "Processing", 0, 0))
    /\ inputFile' = IF file.parent THEN "_parent" ELSE "input"
    /\ pc' = "load"
    /\ UNCHANGED <<config, file, exc, propagated, postIsrExposure, calls, divisors, handed,
                   result, returned>>
    /\ UNCHANGED parseVars

(***************************************************************************)
(* Line 102: the primary loader either yields the exposure or raises.      *)
(***************************************************************************)
LoadPrimary ==
    /\ pc = "load"
    /\ calls' = Append(calls, "ExposureF")
    /\ \E outcome \in {NoException} \cup LoadExceptions :
          IF outcome = NoException
          THEN /\ postIsrExposure' = [image |-> file.image, mask |-> file.mask,
                                      variance |-> file.variance, wcs |-> "file"]
               /\ exc' = exc
               /\ pc' = "loaded"
          ELSE /\ exc' = outcome
               /\ pc' = "except"
               /\ UNCHANGED postIsrExposure
    /\ UNCHANGED <<config, file, inputFile, propagated, log, divisors, handed, result, returned>>
    /\ UNCHANGED parseVars

(***************************************************************************)
(* Lines 103-105 and 117-118: only an LsstCppException is caught, and only *)
(* the FitsError type enters the fallback; anything else propagates.       *)
(***************************************************************************)
CatchAnyCppException(e) ==
    IF e.class = "LsstCppException" THEN "fallback" ELSE "raise"

CatchDecision(e) ==
    IF e.class = "LsstCppException" /\ e.type = FitsErrorType
    THEN "fallback" ELSE "raise"

HandleException ==
    /\ pc = "except"
    /\ pc' = IF CatchDecision(exc) = "fallback" THEN "fallback" ELSE "raised"
    /\ propagated' = IF CatchDecision(exc) = "fallback" THEN propagated ELSE exc
    /\ UNCHANGED <<config, file, inputFile, exc, postIsrExposure, calls, log, divisors,
                   handed, result, returned>>
    /\ UNCHANGED parseVars

(***************************************************************************)
(* Lines 106-116: masked image + header, exposure made from it, WCS        *)
(* recovered from the header when there is one, a warning otherwise.       *)
(***************************************************************************)
WcsBranch(hasWcs) == IF hasWcs THEN "setWcs" ELSE "warn"

LoadFallback ==
    /\ pc = "fallback"
    /\ \E outcome \in {NoException} \cup LoadExceptions :
          IF outcome # NoException
          THEN \* MaskedImageF raised inside the handler: nothing catches it
               /\ calls' = calls \o <<"PropertyList", "MaskedImageF">>
               /\ propagated' = outcome
               /\ pc' = "raised"
               /\ UNCHANGED <<postIsrExposure, log>>
          ELSE \E hasWcs \in BOOLEAN :
               /\ calls' = calls \o <<"PropertyList", "MaskedImageF", "makeExposure",
                                      "makeWcs">>
                            \o (IF WcsBranch(hasWcs) = "setWcs" THEN <<"setWcs">> ELSE << >>)
               /\ postIsrExposure' =
                     [image |-> file.image, mask |-> file.mask,
                      variance |-> file.variance,
                      wcs |-> IF WcsBranch(hasWcs) = "setWcs" THEN "header" ELSE "none"]
               /\ log' = IF WcsBranch(hasWcs) = "warn"
                         THEN Append(log, LogEntry("warn", "No WCS found", 0, 0))
                         ELSE log
               /\ propagated' = propagated
               /\ pc' = "loaded"
    /\ UNCHANGED <<config, file, inputFile, exc, divisors, handed, result, returned>>
    /\ UNCHANGED parseVars

(***************************************************************************)
(* Lines 120-121: mask[:] &= getPlaneBitMask(["SAT","INTRP","BAD","EDGE"]) *)
(***************************************************************************)
KeepsAllPlanes(m) == m

ResetPixel(m) == BitAnd(m, RetainedBits)

ResetMask ==
    /\ pc = "loaded"
    /\ postIsrExposure' =
          [postIsrExposure EXCEPT !.mask = [p \in Pixels |-> ResetPixel(postIsrExposure.mask[p])]]
    /\ calls' = Append(calls, "resetMask")
    /\ pc' = "reset"
    /\ UNCHANGED <<config, file, inputFile, exc, propagated, log, divisors, handed, result, returned>>
    /\ UNCHANGED parseVars

(***************************************************************************)
(* setVariance, lines 131-146.  The VARIANCECLIP statistic is computed by  *)
(* afwMath; its value is an input of the step.                             *)
(***************************************************************************)
BkgdVariance(c, stat) ==
    IF c.isBackgroundSubtracted THEN stat ELSE c.noise * c.noise

GainNotNegative(c) == c.gain >= 0

AddsGainTerm(c) == c.gain > 0

\* variance[:] = bkgdVariance; if gain > 0: variance[:] += image/gain
VariancePlane(c, image, stat) ==
    [p \in Pixels |->
        IF AddsGainTerm(c)
        THEN FracAdd(FromInt(BkgdVariance(c, stat)), Frac(image[p], c.gain))
        ELSE FromInt(BkgdVariance(c, stat))]

RunsSetVarianceAlways(c) == TRUE

RunsSetVariance(c) == c.doVariance

VarianceStep ==
    /\ pc = "reset"
    /\ IF RunsSetVariance(config)
       THEN \E stat \in (IF config.isBackgroundSubtracted THEN ClipStats ELSE {0}) :
            /\ postIsrExposure' =
                  [postIsrExposure EXCEPT
                      !.variance = VariancePlane(config, postIsrExposure.image, stat)]
            /\ calls' = calls \o <<"setVariance">>
                        \o (IF config.isBackgroundSubtracted THEN <<"makeStatistics">> ELSE << >>)
            /\ log' = log
                      \o <<LogEntry("info",
                                    IF config.isBackgroundSubtracted
                                    THEN "Setting variance: background variance"
                                    ELSE "Setting variance: noise",
                                    IF config.isBackgroundSubtracted THEN stat ELSE config.noise,
                                    0)>>
                      \o (IF AddsGainTerm(config)
                          THEN <<LogEntry("info", "Setting variance: gain", config.gain, 0)>>
                          ELSE << >>)
            /\ divisors' = IF AddsGainTerm(config) THEN Append(divisors, config.gain)
                           ELSE divisors
       ELSE UNCHANGED <<postIsrExposure, calls, log, divisors>>
    /\ pc' = "varied"
    /\ UNCHANGED <<config, file, inputFile, exc, propagated, handed, result, returned>>
    /\ UNCHANGED parseVars

(***************************************************************************)
(* setMask, lines 148-156: the plane bit is ADDED (+=) to the unsigned     *)
(* 16-bit mask pixel, first BAD where the image is low, then SAT where it  *)
(* is saturated.                                                           *)
(***************************************************************************)
IsLow(c, i) == i < c.low
IsSat(c, i) == i > c.saturation

SetMaskPixel(c, m, i) ==
    LET afterLow == (m + (IF IsLow(c, i) THEN BAD ELSE 0)) % MaskModulus
    IN  (afterLow + (IF IsSat(c, i) THEN SAT ELSE 0)) % MaskModulus

MaskStep ==
    /\ pc = "varied"
    /\ IF config.doMask
       THEN /\ postIsrExposure' =
                  [postIsrExposure EXCEPT
                      !.mask = [p \in Pixels |->
                                   SetMaskPixel(config, postIsrExposure.mask[p],
                                                postIsrExposure.image[p])]]
            /\ calls' = Append(calls, "setMask")
            /\ log' = Append(log,
                        LogEntry("info", "Masking",
                                 Cardinality({p \in Pixels : IsLow(config, postIsrExposure.image[p])}),
                                 Cardinality({p \in Pixels : IsSat(config, postIsrExposure.image[p])})))
       ELSE UNCHANGED <<postIsrExposure, calls, log>>
    /\ pc' = "masked"
    /\ UNCHANGED <<config, file, inputFile, exc, propagated, divisors, handed, result, returned>>
    /\ UNCHANGED parseVars

(***************************************************************************)
(* Lines 128-129: delegate to ProcessImageTask.process, return its result. *)
(***************************************************************************)
Delegate ==
    /\ pc = "masked"
    /\ \E r \in ProcResults : result' = r
    /\ handed' = postIsrExposure
    /\ calls' = Append(calls, "process")
    /\ pc' = "delegated"
    /\ UNCHANGED <<config, file, inputFile, exc, propagated, postIsrExposure, log, divisors, returned>>
    /\ UNCHANGED parseVars

Return ==
    /\ pc = "delegated"
    /\ returned' = result
    /\ pc' = "done"
    /\ UNCHANGED <<config, file, inputFile, exc, propagated, postIsrExposure, calls, log, divisors,
                   handed, result>>
    /\ UNCHANGED parseVars

(***************************************************************************)
(* Strings are sequences of characters, so that os.path.splitext, upper()  *)
(* and int() are computed on the text itself.                              *)
(***************************************************************************)
MaxTokens == 3        \* identifiers are built from at most MaxTokens tokens
MaxNameTokens == 2    \* names of files on disk, from at most MaxNameTokens tokens
MaxStripCalls == 2    \* calls of _processDataIds on one identifier list

ExtFits == <<".", "f", "i", "t", "s">>
ExtFit == <<".", "f", "i", "t">>
ExtFts == <<".", "f", "t", "s">>
\* argumentParser.py line 184
KnownExtensions == {ExtFits, ExtFit, ExtFts}

Tokens == {<<"x">>, <<".">>, <<"/">>, <<".", "t">>, ExtFits, ExtFit, ExtFts}

RECURSIVE Concat(_)
Concat(ts) == IF ts = << >> THEN << >> ELSE Head(ts) \o Concat(Tail(ts))

TokenStrings(toks, n) == {Concat(ts) : ts \in UNION {[1..k -> toks] : k \in 1..n}}

Identifiers == TokenStrings(Tokens, MaxTokens) \cup {<< >>}

FileNames ==
    {s \in TokenStrings(Tokens \ {<<"/">>}, MaxNameTokens) :
        s \notin {<<".">>, <<".", ".">>}}

MaxOf(S) == CHOOSE m \in S : \A k \in S : k <= m
LastIndexOf(s, c) ==
    LET I == {k \in 1..Len(s) : s[k] = c} IN IF I = {} THEN 0 ELSE MaxOf(I)

\* os.path.splitext: the extension starts at the last dot of the last path
\* component, unless only dots precede it in that component
SplitExt(p) ==
    LET sepIndex == LastIndexOf(p, "/")
        dotIndex == LastIndexOf(p, ".")
    IN  IF dotIndex > sepIndex
           /\ \E k \in (sepIndex + 1)..(dotIndex - 1) : p[k] # "."
        THEN [root |-> SubSeq(p, 1, dotIndex - 1), ext |-> SubSeq(p, dotIndex, Len(p))]
        ELSE [root |-> p, ext |-> << >>]

\* argumentParser.py lines 181-185, for one identifier's calexp value
StripAnyExtension(calexp) ==
    IF calexp # << >> THEN SplitExt(calexp).root ELSE calexp

KeepExtension(calexp) == calexp

StripExtension(calexp) ==
    IF calexp # << >>
    THEN IF SplitExt(calexp).ext \in KnownExtensions
         THEN SplitExt(calexp).root ELSE calexp
    ELSE calexp

StripIdList(idList) == [k \in 1..Len(idList) |-> StripExtension(idList[k])]

(***************************************************************************)
(* Paths and the filesystem.  A path the user types is absolute or         *)
(* relative; a resolved path is the sequence of its components.  An        *)
(* optional value is << >> (None) or <<v>>.                                *)
(***************************************************************************)
None == << >>
Some(v) == <<v>>

Cwd == << >>                     \* the process runs in /
DirD == <<"d">>
DirO == <<"o">>
ChildF == <<"f">>

UserPath(abs, comps) == [abs |-> abs, comps |-> comps]

\* os.path.join(root, p) for user paths
JoinPath(root, p) == IF p.abs THEN p ELSE UserPath(root.abs, root.comps \o p.comps)
\* os.path.abspath(p); no "." or ".." component occurs in the model
AbsPath(p) == IF p.abs THEN p.comps ELSE Cwd \o p.comps

\* lsst.pipe.base.argumentParser._fixPath(defName, path): defRoot is the value
\* of the environment variable defName, path the argument; both optional
FixPath(defRoot, path) ==
    IF defRoot = None
    THEN IF path = None THEN None ELSE Some(AbsPath(path[1]))
    ELSE Some(AbsPath(IF path = None THEN defRoot[1] ELSE JoinPath(defRoot[1], path[1])))

Exists(f, path) == path = << >> \/ path \in f.dirs \/ path \in f.files
IsDir(f, path) == path = << >> \/ path \in f.dirs
IsPrefix(a, b) == Len(a) <= Len(b) /\ SubSeq(b, 1, Len(a)) = a
\* os.path.split of a resolved path with at least one component
SplitPath(path) == [head |-> SubSeq(path, 1, Len(path) - 1), tail |-> path[Len(path)]]
RemoveTopOnly(f, path) ==
    [dirs |-> f.dirs \ {path}, files |-> f.files \ {path}]

\* what shutil.rmtree leaves of the filesystem when it succeeds
RemoveTree(f, path) ==
    [dirs |-> {q \in f.dirs : ~IsPrefix(path, q)},
     files |-> {q \in f.files : ~IsPrefix(path, q)}]

(***************************************************************************)
(* --loglevel text: upper(), the permitted names, int().                   *)
(***************************************************************************)
Lower == <<"a","b","d","e","f","g","i","l","n","o","r","s","t","u","w","x">>
Upper == <<"A","B","D","E","F","G","I","L","N","O","R","S","T","U","W","X">>
UpperChar(c) ==
    IF \E k \in 1..Len(Lower) : Lower[k] = c
    THEN Upper[CHOOSE k \in 1..Len(Lower) : Lower[k] = c] ELSE c
ToUpper(s) == [k \in 1..Len(s) |-> UpperChar(s[k])]

\* argumentParser.py line 159
Permitted == { <<"D","E","B","U","G">>, <<"I","N","F","O">>, <<"W","A","R","N">>,
               <<"F","A","T","A","L">> }

Digits == <<"0","1","2","3","4","5","6","7","8","9">>
IsDigit(c) == \E k \in 1..10 : Digits[k] = c
\* whether int(s) succeeds: an optional sign, then digits only
IsIntText(s) ==
    LET body == IF s # << >> /\ s[1] \in {"-", "+"} THEN Tail(s) ELSE s
    IN  body # << >> /\ \A k \in 1..Len(body) : IsDigit(body[k])

LogLevels ==
    { <<"D","E","B","U","G">>, <<"i","n","f","o">>, <<"W","a","r","n">>,
      <<"F","A","T","A","L">>, <<"5">>, <<"-","1","0">>, <<"b","o","g","u","s">>,
      <<"1","x">>, <<"w","a","r","n","i","n","g">> }

(***************************************************************************)
(* FileArgumentParser.parse_args.                                          *)
(***************************************************************************)
EmptyNamespace ==
    [input |-> None, calib |-> None, output |-> None, idList |-> << >>,
     dataRefList |-> << >>, clobberOutput |-> FALSE, show |-> {}, loglevel |-> None,
     debug |-> FALSE, logdest |-> None, threshold |-> None, frozen |-> FALSE]

CommandLines(firsts, idLists, outputs, clobbers, shows, loglevels) ==
    [first : firsts, ids : idLists, output : outputs, calib : {None},
     clobberOutput : clobbers, show : shows, loglevel : loglevels,
     debug : {FALSE}, logdest : {None}]

Environments(inputs, outputs) == [input : inputs, calib : {None}, output : outputs]

ParseAt(start, cmds, envs, fss) ==
    /\ ppc = start
    /\ argv \in cmds
    /\ args = argv
    /\ env \in envs
    /\ fs \in fss
    /\ fs0 = fs
    /\ inputRoot = << >>
    /\ namespace = EmptyNamespace
    /\ events = << >>
    /\ exitStatus = None
    /\ idHistory = << >>

\* ArgumentParser.error prints the message and exits with status 2;
\* sys.exit with a message string exits with status 1
ErrorStatus == 2
UsageStatus == 1
\* an exception nothing catches ends the process with status 1
ExceptionStatus == 1

Exit(status) ==
    /\ ppc' = "exited"
    /\ exitStatus' = Some(status)

StartsWithDashOrAt(p) ==
    ~p.abs /\ p.comps # << >> /\ p.comps[1] # << >> /\ p.comps[1][1] \in {"-", "@"}

\* lines 71-76
CheckFirstArg ==
    /\ ppc = "start"
    /\ IF args.first = None \/ StartsWithDashOrAt(args.first[1])
       THEN /\ events' = Append(events, "print_help")
            /\ Exit(UsageStatus)
       ELSE /\ ppc' = "resolveInput"
            /\ UNCHANGED <<events, exitStatus>>
    /\ UNCHANGED <<argv, fs0, args, env, fs, inputRoot, namespace, idHistory>>
    /\ UNCHANGED runVars

\* lines 79-86: a first argument that is not a directory is split into its
\* directory and an --id calexp=<file name> argument put right after it
ResolveInput ==
    /\ ppc = "resolveInput"
    /\ LET root == FixPath(env.input, args.first)[1]
       IN  IF ~Exists(fs, root)
           THEN /\ Exit(ErrorStatus)
                /\ inputRoot' = root
                /\ UNCHANGED args
           ELSE IF ~IsDir(fs, root)
           THEN /\ inputRoot' = SplitPath(root).head
                /\ args' = [args EXCEPT
                               !.first = Some(UserPath(TRUE, SplitPath(root).head)),
                               !.ids = <<SplitPath(root).tail>> \o args.ids]
                /\ IF ~IsDir(fs, SplitPath(root).head)
                   THEN Exit(ErrorStatus)
                   ELSE /\ ppc' = "namespace"
                        /\ UNCHANGED exitStatus
           ELSE /\ inputRoot' = root
                /\ ppc' = "namespace"
                /\ UNCHANGED <<args, exitStatus>>
    /\ UNCHANGED <<argv, fs0, env, fs, namespace, events, idHistory>>
    /\ UNCHANGED runVars

\* lines 88-107
InitNamespace ==
    /\ ppc = "namespace"
    /\ namespace' = [namespace EXCEPT !.input = FixPath(env.input, args.first)]
    /\ IF ~IsDir(fs, FixPath(env.input, args.first)[1])
       THEN /\ Exit(ErrorStatus)
            /\ UNCHANGED events
       ELSE /\ events' = events \o <<"handleCamera", "applyInitialOverrides", "override">>
            /\ ppc' = "options"
            /\ UNCHANGED exitStatus
    /\ UNCHANGED <<argv, fs0, args, env, fs, inputRoot, idHistory>>
    /\ UNCHANGED runVars

\* lines 109-113: argparse fills the namespace (every --id value adds one
\* identifier, in command-line order), then calib and output are resolved
ParseOptions ==
    /\ ppc = "options"
    /\ namespace' = [namespace EXCEPT
                        !.idList = args.ids,
                        !.clobberOutput = args.clobberOutput,
                        !.show = args.show,
                        !.loglevel = args.loglevel,
                        !.debug = args.debug,
                        !.logdest = args.logdest,
                        !.calib = FixPath(env.calib, args.calib),
                        !.output = FixPath(env.output, args.output)]
    /\ idHistory' = <<args.ids>>
    /\ ppc' = "clobber"
    /\ UNCHANGED <<argv, fs0, args, env, fs, inputRoot, events, exitStatus>>
    /\ UNCHANGED runVars

\* lines 115-122
ClobberWithoutSameCheck(ns, f) ==
    IF ~ns.clobberOutput THEN "skip"
    ELSE IF ns.output = None THEN "error"
    ELSE IF Exists(f, ns.output[1]) THEN "rmtree"
    ELSE "skip"

ClobberDecision(ns, f) ==
    IF ~ns.clobberOutput THEN "skip"
    ELSE IF ns.output = None THEN "error"
    ELSE IF ns.output = ns.input THEN "error"
    ELSE IF Exists(f, ns.output[1]) THEN "rmtree"
    ELSE "skip"

ClobberOutput ==
    /\ ppc = "clobber"
    /\ CASE ClobberDecision(namespace, fs) = "error" ->
              /\ Exit(ErrorStatus)
              /\ UNCHANGED <<fs, events>>
         [] ClobberDecision(namespace, fs) = "rmtree" ->
              IF IsDir(fs, namespace.output[1])
              THEN /\ fs' = RemoveTree(fs, namespace.output[1])
                   /\ events' = events \o <<"log.info Removing output repo", "rmtree">>
                   /\ ppc' = "show"
                   /\ UNCHANGED exitStatus
              ELSE \* shutil.rmtree of a regular file raises OSError
                   /\ events' = events \o <<"log.info Removing output repo", "rmtree raised">>
                   /\ Exit(ExceptionStatus)
                   /\ UNCHANGED fs
         [] OTHER ->
              /\ ppc' = "show"
              /\ UNCHANGED <<fs, events, exitStatus>>
    /\ UNCHANGED <<argv, fs0, args, env, inputRoot, namespace, idHistory>>
    /\ UNCHANGED runVars

\* lines 124-130
LogPaths ==
    /\ ppc = "show"
    /\ events' = IF "config" \in namespace.show
                 THEN Append(events, "saveToStream") ELSE events
    /\ ppc' = "butler"
    /\ UNCHANGED <<argv, fs0, args, env, fs, inputRoot, namespace, exitStatus, idHistory>>
    /\ UNCHANGED runVars

\* lines 132-134
BuildButler ==
    /\ ppc = "butler"
    /\ events' = events \o <<"FileMapper", "Butler">>
    /\ ppc' = "dataIds"
    /\ UNCHANGED <<argv, fs0, args, env, fs, inputRoot, namespace, exitStatus, idHistory>>
    /\ UNCHANGED runVars

\* lines 139-142 and _processDataIds, lines 175-187: one data reference is
\* made for every identifier
ProcessDataIds ==
    /\ ppc = "dataIds"
    /\ namespace' = [namespace EXCEPT
                        !.idList = StripIdList(namespace.idList),
                        !.dataRefList = StripIdList(namespace.idList)]
    /\ idHistory' = Append(idHistory, StripIdList(namespace.idList))
    /\ events' = IF "data" \in namespace.show
                 THEN Append(events, "print dataRefs") ELSE events
    /\ ppc' = "showExit"
    /\ UNCHANGED <<argv, fs0, args, env, fs, inputRoot, exitStatus>>
    /\ UNCHANGED runVars

\* lines 144-145
ShowExit ==
    /\ ppc = "showExit"
    /\ IF "exit" \in namespace.show
       THEN Exit(0)
       ELSE /\ ppc' = "loglevel"
            /\ UNCHANGED exitStatus
    /\ UNCHANGED <<argv, fs0, args, env, fs, inputRoot, namespace, events, idHistory>>
    /\ UNCHANGED runVars

\* lines 158-166: what becomes of a --loglevel text
LogLevelDecision(level) ==
    IF level = None \/ level[1] = << >> THEN "none"
    ELSE IF ToUpper(level[1]) \in Permitted THEN "name"
    ELSE IF IsIntText(level[1]) THEN "int"
    ELSE "error"

\* lines 147-168
SetLogLevel ==
    /\ ppc = "loglevel"
    /\ IF LogLevelDecision(namespace.loglevel) = "error"
       THEN /\ Exit(ErrorStatus)
            /\ namespace' = [namespace EXCEPT !.logdest = None]
            /\ UNCHANGED events
       ELSE /\ namespace' =
                  [namespace EXCEPT
                      !.logdest = None,
                      !.loglevel = None,
                      !.threshold =
                          IF LogLevelDecision(namespace.loglevel) = "none" THEN @
                          ELSE IF LogLevelDecision(namespace.loglevel) = "name"
                               THEN Some(ToUpper(namespace.loglevel[1]))
                          ELSE namespace.loglevel]
            /\ events' = IF LogLevelDecision(namespace.loglevel) = "none" THEN events
                         ELSE Append(events, "setThreshold")
            /\ ppc' = "validate"
            /\ UNCHANGED exitStatus
    /\ UNCHANGED <<argv, fs0, args, env, fs, inputRoot, idHistory>>
    /\ UNCHANGED runVars

\* lines 170-173
ValidateFreeze ==
    /\ ppc = "validate"
    /\ namespace' = [namespace EXCEPT !.frozen = TRUE]
    /\ events' = events \o <<"validate", "freeze">>
    /\ ppc' = "returned"
    /\ UNCHANGED <<argv, fs0, args, env, fs, inputRoot, exitStatus, idHistory>>
    /\ UNCHANGED runVars

\* _processDataIds called on a namespace whose identifier list is given
CallProcessDataIds ==
    /\ ppc = "strip"
    /\ Len(idHistory) <= MaxStripCalls
    /\ namespace' = [namespace EXCEPT
                        !.idList = StripIdList(namespace.idList),
                        !.dataRefList = StripIdList(namespace.idList)]
    /\ idHistory' = Append(idHistory, StripIdList(namespace.idList))
    /\ UNCHANGED <<ppc, argv, fs0, args, env, fs, inputRoot, events, exitStatus>>
    /\ UNCHANGED runVars

(***************************************************************************)
(* Specifications.                                                         *)
(***************************************************************************)
DefaultConfig ==
    [doVariance |-> FALSE, doMask |-> FALSE, isBackgroundSubtracted |-> FALSE,
     gain |-> 0, noise |-> 1, saturation |-> 1, low |-> 0]

RunIdle ==
    RunAt("idle", {DefaultConfig},
          {f \in Files({0}, {0}, {0}) : ~f.parent})

ParseIdle ==
    ParseAt("idle",
            CommandLines({None}, {<< >>}, {None}, {FALSE}, {{}}, {None}),
            Environments({None}, {None}),
            {[dirs |-> {}, files |-> {}]})

RunNext ==
    \/ Begin
    \/ LoadPrimary
    \/ HandleException
    \/ LoadFallback
    \/ ResetMask
    \/ VarianceStep
    \/ MaskStep
    \/ Delegate
    \/ Return

\* one call of run: every load outcome, every combination of the three
\* switches, a few mask values with and without planes that the reset drops
RunMasks == {0, BAD + CR, 2 * EDGE - 1}
RunIntensities == {-1, 0, MaxIntensity}

Init ==
    /\ RunAt("start",
             Configs(BOOLEAN, BOOLEAN, BOOLEAN, {MaxGain}, {1}, {1}, {0}),
             Files(RunIntensities, RunMasks, {5}))
    /\ ParseIdle

Spec == Init /\ [][RunNext]_vars

\* run from the loaded exposure on, over every mask a file can carry and
\* every threshold, with doMask set
PreparationNext ==
    \/ ResetMask
    \/ VarianceStep
    \/ MaskStep
    \/ Delegate
    \/ Return

InitMask ==
    /\ RunAt("loaded",
             Configs({FALSE}, {TRUE}, {FALSE}, {0}, {1}, Saturations, Lows),
             {f \in Files(Intensities, RawMaskValues, {0}) : ~f.parent})
    /\ ParseIdle

SpecMask == InitMask /\ [][PreparationNext]_vars

\* run from the loaded exposure on, over every gain, noise and prior
\* variance, with doVariance set
InitVariance ==
    /\ RunAt("loaded",
             Configs({TRUE}, {FALSE}, BOOLEAN, Gains, Noises, {1}, {0}),
             {f \in Files(Intensities, {0}, PriorVariances) : ~f.parent})
    /\ ParseIdle

SpecVariance == InitVariance /\ [][PreparationNext]_vars

ParseNext ==
    \/ CheckFirstArg
    \/ ResolveInput
    \/ InitNamespace
    \/ ParseOptions
    \/ ClobberOutput
    \/ LogPaths
    \/ BuildButler
    \/ ProcessDataIds
    \/ ShowExit
    \/ SetLogLevel
    \/ ValidateFreeze

ImageX == <<"x">> \o ExtFits
\* /d holds the image; /d/o and /o may exist, /o as an empty directory, as a
\* directory holding a file, or as a regular file
FileSystems(names) ==
    { [dirs |-> {<<DirD>>} \cup sub \cup (IF o \in {"dir", "tree"} THEN {<<DirO>>} ELSE {}),
       files |-> {<<DirD, n>>}
                 \cup (IF o = "tree" THEN {<<DirO, ChildF>>} ELSE {})
                 \cup (IF o = "file" THEN {<<DirO>>} ELSE {})] :
      n \in names, sub \in {{}, {<<DirD, DirO>>}}, o \in {"none", "dir", "tree", "file"} }

AbsP(comps) == UserPath(TRUE, comps)
RelP(comps) == UserPath(FALSE, comps)

\* how the first argument names its input, and which identifiers follow
InitResolve ==
    \E n \in FileNames :
       ParseAt("start",
               CommandLines({Some(AbsP(<<DirD, n>>)), Some(RelP(<<n>>)), Some(AbsP(<<DirD>>)),
                             Some(RelP(<<DirD, n>>))},
                            {<< >>, <<<<"y">> \o ExtFit>>},
                            {None}, {FALSE}, {{}}, {None}),
               Environments({None, Some(AbsP(<<DirD>>))}, {None}),
               {f \in FileSystems({n}) : <<DirO>> \notin f.dirs \cup f.files})

\* --output, --clobber-output and what is on disk
InitClobber ==
    ParseAt("start",
            CommandLines({Some(AbsP(<<DirD, ImageX>>)), Some(AbsP(<<DirD>>)),
                          Some(AbsP(<<DirD, DirO>>))},
                         {<< >>},
                         {None, Some(AbsP(<<DirO>>)), Some(AbsP(<<DirD>>)),
                          Some(AbsP(<<DirD, DirO>>)), Some(RelP(<<DirO>>))},
                         BOOLEAN, {{}}, {None}),
            Environments({None}, {None, Some(AbsP(<<DirO>>)), Some(AbsP(<<DirD>>))}),
            FileSystems({ImageX}))

\* --loglevel and --show
InitLogLevel ==
    ParseAt("start",
            CommandLines({None, Some(RelP(<<<<"-", "x">>>>)), Some(AbsP(<<DirD, ImageX>>)),
                          Some(AbsP(<<DirO>>))},
                         {<< >>},
                         {None, Some(AbsP(<<DirO>>))}, BOOLEAN,
                         {{}, {"exit"}, {"data", "config"}, {"data", "exit"}},
                         {None, Some(<< >>)} \cup {Some(l) : l \in LogLevels}),
            Environments({None}, {None}),
            {f \in FileSystems({ImageX}) : <<DirD, DirO>> \notin f.dirs})

InitParse ==
    /\ RunIdle
    /\ (InitResolve \/ InitClobber \/ InitLogLevel)

SpecParse == InitParse /\ [][ParseNext]_vars

\* _processDataIds applied, and applied again, to every identifier
InitStrip ==
    /\ RunIdle
    /\ ppc = "strip"
    /\ argv \in CommandLines({Some(AbsP(<<DirD>>))}, {<< >>}, {None}, {FALSE}, {{}}, {None})
    /\ args = argv
    /\ env \in Environments({None}, {None})
    /\ fs = [dirs |-> {<<DirD>>}, files |-> {}]
    /\ fs0 = fs
    /\ inputRoot = <<DirD>>
    /\ \E id \in Identifiers :
          /\ namespace = [EmptyNamespace EXCEPT !.input = Some(<<DirD>>), !.idList = <<id>>]
          /\ idHistory = <<<<id>>>>
    /\ events = <<"handleCamera", "applyInitialOverrides", "override", "FileMapper", "Butler">>
    /\ exitStatus = None

StripNext == CallProcessDataIds

SpecStrip == InitStrip /\ [][StripNext]_vars

(***************************************************************************)
(* Properties.                                                             *)
(***************************************************************************)
Planes == {2 ^ k : k \in 0..(MaskWidth - 1)}
RetainedPlanes == {SAT, INTRP, BAD, EDGE}
Contains(seq, x) == \E k \in 1..Len(seq) : seq[k] = x
Precedes(seq, x, y) ==
    \A k \in 1..Len(seq) : seq[k] = y => \E j \in 1..(k - 1) : seq[j] = x
AfterLoad == pc \in {"reset", "varied", "masked", "delegated", "done"}
AfterSetMask == pc \in {"masked", "delegated", "done"}
AfterSetVariance == pc \in {"varied", "masked", "delegated", "done"}

\* C1: after setMask every pixel's mask is the mask that survived the reset,
\* OR BAD where the intensity is below low, OR SAT where it is above
\* saturation: a plane is set exactly when it survived or was contributed.
C1_SetMaskIsOr ==
    (AfterSetMask /\ config.doMask) =>
       \A p \in Pixels : \A b \in Planes :
          HasBit(postIsrExposure.mask[p], b) <=>
             \/ (b \in RetainedPlanes /\ HasBit(file.mask[p], b))
             \/ (b = BAD /\ file.image[p] < config.low)
             \/ (b = SAT /\ file.image[p] > config.saturation)

\* C3: the fallback loader is entered only after a FitsError of the primary
\* load; any other failure leaves run as it was raised, with no fallback,
\* no setVariance, no setMask and no process call.
C3_FallbackOnlyOnFitsError ==
    /\ (pc = "fallback" \/ Contains(calls, "MaskedImageF")) =>
          (exc.class = "LsstCppException" /\ exc.type = FitsErrorType)
    /\ (exc # NoException /\ pc # "except"
        /\ ~(exc.class = "LsstCppException" /\ exc.type = FitsErrorType)) =>
          /\ pc = "raised"
          /\ propagated = exc
          /\ calls = <<"ExposureF">>
          /\ postIsrExposure = EmptyExposure
          /\ handed = EmptyExposure
          /\ result = "none"

C3_Witness ==
    /\ pc = "raised"
    /\ exc.class = "LsstCppException"
    /\ exc.type # FitsErrorType

\* C7: once loaded, by either loader, the mask holds exactly the planes of
\* the file's mask that are among SAT, INTRP, BAD, EDGE, and the reset comes
\* before every later step; a fallback load whose header has no WCS logs a
\* warning and goes on to the reset and to process.
C7_ResetAfterEitherLoad ==
    /\ pc = "reset" =>
          \A p \in Pixels : \A b \in Planes :
             HasBit(postIsrExposure.mask[p], b) <=>
                (b \in RetainedPlanes /\ HasBit(file.mask[p], b))
    /\ AfterLoad <=> Contains(calls, "resetMask")
    /\ \A later \in {"setVariance", "setMask", "process"} :
          Precedes(calls, "resetMask", later)
    /\ (Contains(calls, "makeWcs") /\ ~Contains(calls, "setWcs")) =>
          /\ pc \in {"loaded"} \cup {"reset", "varied", "masked", "delegated", "done"}
          /\ propagated = NoException
          /\ Contains(log, LogEntry("warn", "No WCS found", 0, 0))
          /\ postIsrExposure.wcs = "none"
    /\ pc = "done" => (Contains(calls, "resetMask") /\ calls[Len(calls)] = "process")

C7_Witness ==
    /\ pc = "done"
    /\ Contains(calls, "makeWcs")
    /\ ~Contains(calls, "setWcs")
    /\ \E p \in Pixels : HasBit(file.mask[p], CR) /\ ~HasBit(handed.mask[p], CR)

LoggedBase ==
    LET k == CHOOSE k \in 1..Len(log) :
                log[k].what \in {"Setting variance: background variance",
                                 "Setting variance: noise"}
    IN  IF config.isBackgroundSubtracted THEN log[k].a ELSE config.noise * config.noise

\* C9: setVariance makes every pixel's variance base + image/gain when
\* gain > 0 and base otherwise, base being noise squared or, for a
\* background-subtracted image, the clipped-variance statistic; with
\* gain <= 0 nothing is divided by gain; the prior variance plays no part.
C9_VarianceFormula ==
    (AfterSetVariance /\ config.doVariance) =>
       /\ \A p \in Pixels :
             LET v == postIsrExposure.variance[p]
             IN  /\ v.d > 0
                 /\ IF config.gain > 0
                    THEN v.n * config.gain = (LoggedBase * config.gain + file.image[p]) * v.d
                    ELSE v.n = LoggedBase /\ v.d = 1
       /\ config.gain <= 0 => divisors = << >>
       /\ \A k \in 1..Len(divisors) : divisors[k] > 0
       /\ config.isBackgroundSubtracted =>
             Contains(log, LogEntry("info", "Setting variance: background variance",
                                    LoggedBase, 0))

C9_Witness ==
    /\ pc = "varied"
    /\ Contains(calls, "setVariance")
    /\ config.gain = 0
    /\ config.isBackgroundSubtracted
    /\ \E p \in Pixels : file.variance[p] # postIsrExposure.variance[p]

IsLoadCall(c) ==
    c \in {"ExposureF", "PropertyList", "MaskedImageF", "makeExposure", "makeWcs", "setWcs"}
IsStepCall(c) == c \in {"resetMask", "setVariance", "setMask", "process"}

\* C10: a run that completes has loaded, reset the mask right after the
\* load, run setVariance iff doVariance, then setMask iff doMask, then
\* process once, and returns what process returned; with both switches off
\* process is handed the file's variance and the file's mask restricted to
\* SAT, INTRP, BAD, EDGE.
C10_RunOrder ==
    pc = "done" =>
       /\ SelectSeq(calls, IsStepCall) =
             <<"resetMask">>
             \o (IF config.doVariance THEN <<"setVariance">> ELSE << >>)
             \o (IF config.doMask THEN <<"setMask">> ELSE << >>)
             \o <<"process">>
       /\ \E k \in 2..Len(calls) :
             /\ calls[k] = "resetMask"
             /\ \A j \in 1..(k - 1) : IsLoadCall(calls[j])
       /\ returned = result
       /\ returned \in ProcResults
       /\ (~config.doVariance /\ ~config.doMask) =>
             /\ handed.variance = file.variance
             /\ handed.image = file.image
             /\ divisors = << >>
             /\ \A p \in Pixels : \A b \in Planes :
                   HasBit(handed.mask[p], b) <=>
                      (b \in RetainedPlanes /\ HasBit(file.mask[p], b))

C10_Witness ==
    /\ pc = "done"
    /\ config.doVariance
    /\ config.doMask
    /\ Contains(calls, "MaskedImageF")
    /\ returned = "structB"

PastClobber == ppc \notin {"idle", "strip", "start", "resolveInput", "namespace", "options", "clobber"}
SubtreeOf(f, path) == {q \in f.dirs \cup f.files : IsPrefix(path, q)}

\* C2: with --clobber-output, an output that resolves to nothing or to the
\* input path ends parse_args with the argument error, and nothing has been
\* removed from the filesystem.
C2_ClobberSameAsInputRemovesNothing ==
    (PastClobber /\ namespace.clobberOutput
     /\ (namespace.output = None \/ namespace.output = namespace.input)) =>
       /\ ppc = "exited"
       /\ exitStatus = Some(ErrorStatus)
       /\ fs = fs0
       /\ ~Contains(events, "rmtree")
       /\ ~Contains(events, "FileMapper")

C2_Witness ==
    /\ ppc = "exited"
    /\ namespace.clobberOutput
    /\ namespace.output # None
    /\ namespace.output = namespace.input
    /\ SubtreeOf(fs, namespace.output[1]) # {}

ClobberApplies ==
    /\ namespace.clobberOutput
    /\ namespace.output # None
    /\ namespace.output # namespace.input
    /\ namespace.output[1] \in fs0.dirs

\* C8: with --clobber-output and an output directory that is set, is not the
\* input and exists, the whole tree is removed, and it is removed before
\* the mapper and the butler are constructed and before any data reference
\* is made.
C8_OutputRemovedBeforeButler ==
    /\ (PastClobber /\ ClobberApplies) =>
          /\ SubtreeOf(fs, namespace.output[1]) = {}
          /\ Contains(events, "rmtree")
          /\ fs.dirs \cup fs.files =
                (fs0.dirs \cup fs0.files) \ SubtreeOf(fs0, namespace.output[1])
    /\ ClobberApplies =>
          /\ Precedes(events, "rmtree", "FileMapper")
          /\ Precedes(events, "rmtree", "Butler")
          /\ (namespace.dataRefList # << >> => Contains(events, "rmtree"))
    /\ (Contains(events, "FileMapper") /\ namespace.clobberOutput) =>
          ~Exists(fs, namespace.output[1])

C8_Witness ==
    /\ ClobberApplies
    /\ Contains(events, "Butler")
    /\ namespace.dataRefList # << >>
    /\ <<DirO, ChildF>> \in fs0.files
    /\ namespace.output = Some(<<DirO>>)
    /\ fs.files = {<<DirD, ImageX>>}

InvalidLogLevel(level) ==
    /\ level # None
    /\ level[1] # << >>
    /\ ToUpper(level[1]) \notin Permitted
    /\ ~IsIntText(level[1])

\* C5: a --loglevel text that is neither DEBUG, INFO, WARN, FATAL in any
\* case nor an integer ends parse_args with the argument error before the
\* mapper and the butler are constructed: no such run constructs them, makes
\* data references, or exits with status 0.
C5_InvalidLogLevelFailsBeforeButler ==
    InvalidLogLevel(argv.loglevel) =>
       /\ ~Contains(events, "FileMapper")
       /\ ~Contains(events, "Butler")
       /\ namespace.dataRefList = << >>
       /\ exitStatus # Some(0)
       /\ ppc # "returned"

EndsWith(s, e) == Len(s) >= Len(e) /\ SubSeq(s, Len(s) - Len(e) + 1, Len(s)) = e
\* s ends in a known extension that something other than dots precedes in
\* the last path component
HasKnownExtension(s) ==
    \E e \in KnownExtensions :
       /\ EndsWith(s, e)
       /\ \E k \in 1..(Len(s) - Len(e)) :
             /\ s[k] # "."
             /\ \A j \in k..(Len(s) - Len(e)) : s[j] # "/"

GivenFile == FixPath(env.input, argv.first)[1]

\* C6: a first argument naming an existing regular file, with no --id given,
\* makes the file's directory the input root and leaves exactly one
\* identifier, the file's name without its .fits, .fit or .fts extension.
C6_FileArgumentBecomesRootAndId ==
    (ppc \in {"showExit", "loglevel", "validate", "returned"}
     /\ GivenFile \in fs0.files /\ argv.ids = << >>) =>
       LET name == GivenFile[Len(GivenFile)]
       IN  /\ namespace.input = Some(SubSeq(GivenFile, 1, Len(GivenFile) - 1))
           /\ IsDir(fs0, namespace.input[1])
           /\ inputRoot = namespace.input[1]
           /\ Len(namespace.idList) = 1
           /\ Len(namespace.dataRefList) = 1
           /\ IF HasKnownExtension(name)
              THEN \E e \in KnownExtensions : namespace.idList[1] \o e = name
              ELSE namespace.idList[1] = name

C6_Witness ==
    /\ ppc = "returned"
    /\ argv.first = Some(AbsP(<<DirD, ImageX>>))
    /\ argv.ids = << >>
    /\ namespace.input = Some(<<DirD>>)
    /\ namespace.idList = <<<<"x">>>>

\* C4 as stated: _processDataIds applied a second time leaves every
\* identifier as the first application left it.
C4_StripIsIdempotent ==
    Len(idHistory) >= 3 => idHistory[3] = idHistory[2]

\* C4 as the code has it: each application removes exactly one trailing
\* known extension, if there is one; a second application changes nothing
\* exactly when the once-stripped identifier does not itself end in a known
\* extension.
C4_StripRemovesOneExtension ==
    /\ \A k \in 2..Len(idHistory) :
          LET before == idHistory[k - 1][1]
              after == idHistory[k][1]
          IN  IF HasKnownExtension(before)
              THEN \E e \in KnownExtensions : after \o e = before
              ELSE after = before
    /\ Len(idHistory) >= 3 =>
          (idHistory[3] = idHistory[2] <=> ~HasKnownExtension(idHistory[2][1]))

C4_Witness ==
    /\ Len(idHistory) = 3
    /\ idHistory[1][1] = <<"x">> \o ExtFits \o ExtFit
    /\ idHistory[2][1] = <<"x">> \o ExtFits
    /\ idHistory[3][1] = <<"x">>
=============================================================================
